---- MODULE Spec2Model ----
(***************************************************************************)
(* cargo-aur: the `work` pipeline of src/main.rs (manifest -> build ->     *)
(* tarball -> checksum -> PKGBUILD) and the PKGBUILD renderer `pkgbuild`,  *)
(* with the types of src/lib.rs (Package, Metadata, AUR, GitHost) and the  *)
(* crates.io handles of src/crates.rs.                                     *)
(*                                                                         *)
(* Text is modelled by value: a Rust `String` without line breaks is a     *)
(* TLA+ string, and a string that may hold "\n" is the sequence of its     *)
(* "\n"-separated segments (never empty: "" is <<"">>).  The content of a  *)
(* file written only with `writeln!` is the sequence of its lines.         *)
(* `Option<T>` is a sequence of length 0 (None) or 1 (Some).               *)
(***************************************************************************)
EXTENDS Integers, Sequences, FiniteSets, TLC

VARIABLES
    args,       \* the parsed command line (struct Args)
    config,     \* the manifest on disk, as `cargo_config` parses it (struct Config)
    dir,        \* the file names in the directory `license_file` lists
    pc,         \* the position of `work` (or of the direct call of `pkgbuild`)
    result,     \* what the run (or the call) returned
    ran,        \* the stages executed so far, oldest first, each with its outcome
    license,    \* Option<DirEntry>: the LICENSE file found, by file name
    sha256,     \* Option<String>: the checksum computed
    out,        \* the PKGBUILD file: whether it exists, and its lines
    copy,       \* the transient copy of the binary in the working directory exists
    archive,    \* the tarball in the output directory: exists, name, members
    targets,    \* the lines `rustup target list --installed` prints
    binary      \* the paths `tarball` gave to strip and to std::fs::copy

vars == <<args, config, dir, pc, result, ran, license, sha256, out, copy, archive,
          targets, binary>>

(***************************************************************************)
(* Bounds of the model.                                                    *)
(***************************************************************************)
\* Longest depends list of [package.metadata.aur] (renderer runs).
MaxDeps == 2
\* Longest optdepends list of [package.metadata.aur] (renderer runs).
MaxOptDeps == 1
\* Most extra-file pairs of [package.metadata.aur] (renderer runs).
MaxFiles == 2
\* Most authors of a manifest (renderer runs).
MaxAuthors == 2
\* Most extra-file pairs of a manifest in a whole run of `work`.
MaxRunFiles == 1

(***************************************************************************)
(* Option and string helpers.                                              *)
(***************************************************************************)
None == <<>>
Some(x) == <<x>>
IsSome(o) == o # <<>>

\* str::starts_with
starts_with(s, p) == Len(s) >= Len(p) /\ SubSeq(s, 1, Len(p)) = p

\* Path::has_root on Unix: the path begins with the root directory "/".
has_root(path) == starts_with(path, "/")

(***************************************************************************)
(* src/lib.rs: GitHost, Package, Metadata.                                 *)
(***************************************************************************)
\* GitHost::source with the release tag written without its `v`.
GitHost_source_untagged(host, package, no_bin) ==
    LET platform_identifier == IF no_bin THEN "" ELSE "-x86_64"
    IN  IF host = "Github"
        THEN package.repository \o "/releases/download/$pkgver/" \o package.name
                 \o "-$pkgver" \o platform_identifier \o ".tar.gz"
        ELSE package.repository \o "/-/archive/$pkgver/" \o package.name
                 \o "-$pkgver" \o platform_identifier \o ".tar.gz"

\* GitHost::source
GitHost_source(host, package, no_bin) ==
    LET platform_identifier == IF no_bin THEN "" ELSE "-x86_64"
    IN  IF host = "Github"
        THEN package.repository \o "/releases/download/v$pkgver/" \o package.name
                 \o "-$pkgver" \o platform_identifier \o ".tar.gz"
        ELSE package.repository \o "/-/archive/v$pkgver/" \o package.name
                 \o "-$pkgver" \o platform_identifier \o ".tar.gz"

\* Package::tarball: the file name joined to the output directory.
Package_tarball(package) ==
    package.name \o "-" \o package.version \o "-x86_64.tar.gz"

\* Package::source_tarball
Package_source_tarball(package) ==
    package.name \o "-" \o package.version \o ".tar.gz"

\* Package::git_host that knows GitHub only.
git_host_github_only(package) ==
    IF starts_with(package.repository, "https://github") THEN Some("Github") ELSE None

\* Package::git_host
git_host(package) ==
    IF starts_with(package.repository, "https://github") THEN Some("Github")
    ELSE IF starts_with(package.repository, "https://gitlab") THEN Some("Gitlab")
    ELSE None

\* Package::url: Option::or, then Option::unwrap_or.
url(package) ==
    LET first == IF IsSome(package.homepage) THEN package.homepage
                 ELSE package.documentation
    IN  IF IsSome(first) THEN first[1] ELSE package.repository

\* Metadata::non_empty as it was before [package.metadata.aur] existed.
non_empty_legacy_only(metadata) ==
    metadata.depends # <<>> \/ metadata.optdepends # <<>>

\* Metadata::non_empty
non_empty(metadata) ==
    \/ metadata.depends # <<>>
    \/ metadata.optdepends # <<>>
    \/ /\ IsSome(metadata.aur)
       /\ \/ metadata.aur[1].depends # <<>>
          \/ metadata.aur[1].optdepends # <<>>

\* A `Formatter` being written to: the finished lines and the line in progress.
fmt_new == [lines |-> <<>>, cur |-> ""]
\* write!(f, "{}", s) for a string without line breaks
fmt_write(f, s) == [f EXCEPT !.cur = @ \o s]
\* the "\n" that writeln! adds
fmt_newline(f) == [lines |-> Append(f.lines, f.cur), cur |-> ""]
\* The text written, as its "\n"-separated segments.
fmt_finish(f) == Append(f.lines, f.cur)

\* for item in middle { write!(f, "\"{}\" ", item)?; }
RECURSIVE fmt_middle(_, _)
fmt_middle(f, middle) ==
    IF middle = <<>> THEN f
    ELSE fmt_middle(fmt_write(f, "\"" \o Head(middle) \o "\" "), Tail(middle))

\* One `match` arm of Display for Metadata: key=("a" "b"), then "\n" if `nl`.
fmt_list(f, key, items, nl) ==
    IF items = <<>> THEN f
    ELSE LET middle == SubSeq(items, 1, Len(items) - 1)
             last == items[Len(items)]
             a == fmt_write(f, key \o "=(")
             b == fmt_middle(a, middle)
             c == fmt_write(b, "\"" \o last \o "\")")
         IN  IF nl THEN fmt_newline(c) ELSE c

\* Display for Metadata that falls back to a legacy list where the nested one is empty.
Display_Metadata_merging(metadata) ==
    LET nested == IsSome(metadata.aur)
        deps == IF nested /\ metadata.aur[1].depends # <<>>
                THEN metadata.aur[1].depends ELSE metadata.depends
        opts == IF nested /\ metadata.aur[1].optdepends # <<>>
                THEN metadata.aur[1].optdepends ELSE metadata.optdepends
        a == fmt_list(fmt_new, "depends", deps, opts # <<>>)
        b == fmt_list(a, "optdepends", opts, FALSE)
    IN  fmt_finish(b)

\* impl Display for Metadata
Display_Metadata(metadata) ==
    LET nested == IsSome(metadata.aur)
        deps == IF nested THEN metadata.aur[1].depends ELSE metadata.depends
        opts == IF nested THEN metadata.aur[1].optdepends ELSE metadata.optdepends
        a == fmt_list(fmt_new, "depends", deps, opts # <<>>)
        b == fmt_list(a, "optdepends", opts, FALSE)
    IN  fmt_finish(b)

(***************************************************************************)
(* src/main.rs: results, licenses, the binary name.                        *)
(***************************************************************************)
\* Result<(), Error>: Ok(()), or Err with the variant of src/error.rs (and of
\* the callers' Error::Compressing, Error::ExtractingCrate); `path` is the
\* payload of TargetNotAbsolute.
Running == [tag |-> "running", path |-> ""]
Ok == [tag |-> "Ok", path |-> ""]
Err(tag) == [tag |-> tag, path |-> ""]
TargetNotAbsolute(path) == [tag |-> "TargetNotAbsolute", path |-> path]

\* const LICENSES
LICENSES ==
    { "AGPL-3.0-only", "AGPL-3.0-or-later", "Apache-2.0", "BSL-1.0",
      "GPL-2.0-only", "GPL-2.0-or-later", "GPL-3.0-only", "GPL-3.0-or-later",
      "LGPL-2.0-only", "LGPL-2.0-or-later", "LGPL-3.0-only", "LGPL-3.0-or-later",
      "MPL-2.0", "Unlicense" }

\* must_copy_license without its `.not()`.
must_copy_license_inverted(id) == id \in LICENSES

\* must_copy_license (alert_if_must_copy_license returns the same value)
must_copy_license(id) == id \notin LICENSES

\* license_file without the filter on the file name.
license_candidates_unfiltered(listing) == listing

\* license_file: the entries `find` may return, read_dir's order being unspecified.
license_candidates(listing) == {f \in listing : starts_with(f, "LICENSE")}

\* Config::binary_name that takes the last [[bin]] table.
binary_name_of_last(cfg) ==
    IF cfg.bin # <<>> THEN cfg.bin[Len(cfg.bin)].name ELSE cfg.package.name

\* Config::binary_name
binary_name(cfg) ==
    IF cfg.bin # <<>> THEN cfg.bin[1].name ELSE cfg.package.name

(***************************************************************************)
(* src/main.rs: pkgbuild.  `file` is the sequence of lines written so far; *)
(* writeln!(file, "{}", x) appends the segments of x.                      *)
(***************************************************************************)
RECURSIVE maintainers(_)
\* authors.iter().map(|a| format!("# Maintainer: {}", a)).collect::<Vec<_>>()
maintainers(authors) ==
    IF authors = <<>> THEN <<>>
    ELSE <<"# Maintainer: " \o Head(authors)>> \o maintainers(Tail(authors))

\* .join("\n"): the joined string, as its segments ("" for no author).
authors_text(package) ==
    IF package.authors = <<>> THEN <<"">> ELSE maintainers(package.authors)

\* The crates.io source of a from-source package.
crates_io_source ==
    "$pkgname-$pkgver.tar.gz::https://static.crates.io/crates/$pkgname/$pkgname-$pkgver.crate"

\* let source = match (source_type, no_bin)
pkgbuild_source(package, source_type, no_bin) ==
    IF source_type = "Project" \/ ~no_bin
    THEN LET host == git_host(package)
         IN  GitHost_source(IF IsSome(host) THEN host[1] ELSE "Github", package, no_bin)
    ELSE crates_io_source

\* let pkgname, with the suffix added in both modes.
pkgname_always_bin(package, no_bin) == package.name \o "-bin"

\* let pkgname
pkgname_of(package, no_bin) ==
    IF no_bin THEN package.name ELSE package.name \o "-bin"

\* The match on package.metadata: one writeln! of the Display text, or nothing.
pkgbuild_metadata(package) ==
    IF IsSome(package.metadata) /\ non_empty(package.metadata[1])
    THEN Display_Metadata(package.metadata[1])
    ELSE <<>>

\* The attribution comment.  A TLA+ string cannot hold a backquote: the two
\* around "cargo aur" in the source are written as apostrophes here.
attribution ==
    "# This PKGBUILD was generated by 'cargo aur': https://crates.io/crates/cargo-aur"

\* From the authors to the blank line after sha256sums.
pkgbuild_head(cfg, sum, source_type, no_bin) ==
    LET package == cfg.package
    IN  authors_text(package)
        \o << "#",
              attribution,
              "",
              "pkgname=" \o pkgname_of(package, no_bin),
              "pkgver=" \o package.version,
              "pkgrel=1",
              "pkgdesc=\"" \o package.description \o "\"",
              "url=\"" \o url(package) \o "\"",
              "license=(\"" \o package.license \o "\")",
              "arch=(\"x86_64\")" >>
        \o (IF ~no_bin
            THEN << "provides=(\"" \o package.name \o "\")",
                    "conflicts=(\"" \o package.name \o "\")" >>
            ELSE <<>>)
        \o pkgbuild_metadata(package)
        \o << "source=(\"" \o pkgbuild_source(package, source_type, no_bin) \o "\")",
              "sha256sums=(\"" \o sum \o "\")",
              "" >>

\* The prepare, build and check steps of a from-source package.
pkgbuild_steps(no_bin) ==
    IF no_bin
    THEN << "prepare() {",
            "    cd $pkgname-$pkgver",
            "    export RUSTUP_TOOLCHAIN=stable",
            "    cargo fetch --locked --target \"$(rustc -vV | sed -n 's/host: //p')\"",
            "}",
            "",
            "build() {",
            "    cd $pkgname-$pkgver",
            "    export RUSTUP_TOOLCHAIN=stable",
            "    export CARGO_TARGET_DIR=target",
            "    cargo build --frozen --release --all-features",
            "}",
            "",
            "check() {",
            "    cd $pkgname-$pkgver",
            "    export RUSTUP_TOOLCHAIN=stable",
            "    cargo test --frozen --all-features",
            "}",
            "" >>
    ELSE <<>>

\* The install command of the binary.
install_binary(cfg, no_bin) ==
    IF no_bin
    THEN << "    cd $pkgname-$pkgver",
            "    install -Dm755 target/release/" \o binary_name(cfg) \o " -t \"$pkgdir/usr/bin\"" >>
    ELSE << "    install -Dm755 " \o binary_name(cfg) \o " -t \"$pkgdir/usr/bin\"" >>

\* if let Some(lic) = license: the file name is UTF-8 (license_file kept it for
\* its to_str), so into_string succeeds.
install_license(lic) ==
    IF IsSome(lic)
    THEN << "    install -Dm644 " \o lic[1]
                \o " \"$pkgdir/usr/share/licenses/$pkgname/" \o lic[1] \o "\"" >>
    ELSE <<>>

\* The writeln! of one extra-file pair.
install_file_line(pair) ==
    "    install -Dm644 \"" \o pair[1] \o "\" \"$pkgdir" \o pair[2] \o "\""

RECURSIVE install_files_skipping(_, _)
\* The loop over aur.files, passing over a relative target instead of returning.
install_files_skipping(file, files) ==
    IF files = <<>> THEN [file |-> file, result |-> Ok]
    ELSE IF ~has_root(Head(files)[2])
    THEN install_files_skipping(file, Tail(files))
    ELSE install_files_skipping(Append(file, install_file_line(Head(files))), Tail(files))

RECURSIVE install_files(_, _)
\* for (source, target) in aur.files.iter()
install_files(file, files) ==
    IF files = <<>> THEN [file |-> file, result |-> Ok]
    ELSE IF ~has_root(Head(files)[2])
    THEN [file |-> file, result |-> TargetNotAbsolute(Head(files)[2])]
    ELSE install_files(Append(file, install_file_line(Head(files))), Tail(files))

\* The extra files of the manifest: those of [package.metadata.aur], if any.
aur_files(package) ==
    IF IsSome(package.metadata) /\ IsSome(package.metadata[1].aur)
    THEN package.metadata[1].aur[1].files
    ELSE <<>>

\* pkgbuild: the lines written to `file` and the value returned.
pkgbuild(cfg, sum, lic, source_type, no_bin) ==
    LET upto == pkgbuild_head(cfg, sum, source_type, no_bin)
                \o pkgbuild_steps(no_bin)
                \o <<"package() {">>
                \o install_binary(cfg, no_bin)
                \o install_license(lic)
        loop == install_files(upto, aur_files(cfg.package))
    IN  IF loop.result = Ok
        THEN [file |-> Append(loop.file, "}"), result |-> Ok]
        ELSE loop

(***************************************************************************)
(* src/main.rs: sha256sum.  The digest is hmac_sha256's; the model keeps   *)
(* it a fixed function of the bytes read and formats it as the code does.  *)
(***************************************************************************)
HexDigits == <<"0", "1", "2", "3", "4", "5", "6", "7",
               "8", "9", "a", "b", "c", "d", "e", "f">>

\* format!("{:x}", u): no padding to two digits.
hex2_unpadded(u) ==
    IF u < 16 THEN HexDigits[u + 1] ELSE HexDigits[(u \div 16) + 1] \o HexDigits[(u % 16) + 1]

\* format!("{:02x}", u) for a byte u
hex2(u) == HexDigits[(u \div 16) + 1] \o HexDigits[(u % 16) + 1]

RECURSIVE sum_bytes(_)
sum_bytes(bytes) == IF bytes = <<>> THEN 0 ELSE Head(bytes) + sum_bytes(Tail(bytes))

\* Hash::hash(&bytes): 32 bytes that depend on the input alone.
Hash(bytes) == [i \in 1..32 |-> (sum_bytes(bytes) * 131 + Len(bytes) * 17 + i * 29) % 256]

RECURSIVE hex_collect(_)
\* digest.iter().map(|u| format!("{:02x}", u)).collect()
hex_collect(digest) ==
    IF digest = <<>> THEN "" ELSE hex2(Head(digest)) \o hex_collect(Tail(digest))

\* sha256sum of a file that was read
sha256sum(bytes) == hex_collect(Hash(bytes))

(***************************************************************************)
(* The inputs: manifests, command lines, directory listings.               *)
(***************************************************************************)
Min(a, b) == IF a <= b THEN a ELSE b
\* The lists that begin a pool, up to n items.
Prefixes(pool, n) == {SubSeq(pool, 1, k) : k \in 0..Min(n, Len(pool))}

Names == {"foo", "cargo-aur"}
Version == "1.0.0"
Description == "A tool"
AuthorPool == <<"Zoe <zoe@example.org>", "Al", "Mo", "Ed">>
Repositories ==
    {"https://github.com/x/foo", "https://gitlab.com/x/foo", "https://codeberg.org/x/foo"}
LicenseIds == {"MIT", "Apache-2.0"}
Homepages == {None}
Documentations == {None}
\* [[bin]] tables: none, or two whose names differ from the package's.
Bins == {<<>>, <<[name |-> "foo-cli"], [name |-> "foo-daemon"]>>}

\* [package.metadata] depends / optdepends (deprecated)
LegacyDepends == {<<>>, <<"glibc">>}
LegacyOptdepends == {<<>>, <<"man-db">>}
\* [package.metadata.aur] depends / optdepends
DepPool == <<"openssl", "gcc-libs", "zlib", "curl">>
OptPool == <<"git", "bash-completion", "fish", "zsh">>

\* [package.metadata.aur] files: the i-th pair has its own source; its target
\* is absolute or relative.
FileSources == <<"foo.bash", "foo.1", "foo.toml", "foo.fish">>
AbsoluteTargets == <<"/usr/share/foo.bash", "/usr/share/man/foo.1", "/etc/foo.toml", "/usr/share/foo.fish">>
RelativeTargets == <<"usr/share/foo.bash", "man/foo.1", "etc/foo.toml", "foo.fish">>
FileSeqs(n) ==
    UNION { { [i \in 1..k |-> <<FileSources[i],
                                IF absolute[i] THEN AbsoluteTargets[i]
                                ELSE RelativeTargets[i]>>]
              : absolute \in [1..k -> BOOLEAN] }
            : k \in 0..Min(n, Len(FileSources)) }

Aurs(deps, opts, files) ==
    { [depends |-> d, optdepends |-> o, files |-> f, custom |-> <<>>]
      : d \in deps, o \in opts, f \in files }

Metadatas(legacy_deps, legacy_opts, aurs) ==
    {None} \cup
    { Some([depends |-> d, optdepends |-> o, aur |-> a])
      : d \in legacy_deps, o \in legacy_opts, a \in {None} \cup {Some(x) : x \in aurs} }

Configs(names, authors, repositories, metadatas, bins) ==
    { [package |-> [name |-> n, version |-> Version, authors |-> au,
                    description |-> Description, repository |-> r, license |-> l,
                    metadata |-> m, homepage |-> h, documentation |-> d],
       bin |-> b]
      : n \in names, au \in authors, r \in repositories, l \in LicenseIds,
        m \in metadatas, h \in Homepages, d \in Documentations, b \in bins }

\* The manifests that vary in their authors and their [package.metadata].
MetadataConfigs ==
    Configs(Names, Prefixes(AuthorPool, MaxAuthors), Repositories,
            Metadatas(LegacyDepends, LegacyOptdepends,
                      Aurs(Prefixes(DepPool, MaxDeps), Prefixes(OptPool, MaxOptDeps),
                           FileSeqs(MaxFiles))),
            {<<>>})

\* homepage and documentation: absent, present and empty, or present.
HomepageValues == {None, Some(""), Some("https://foo.example.org")}
DocumentationValues == {None, Some(""), Some("https://docs.rs/foo")}

\* The manifests that vary in homepage and documentation.
UrlConfigs ==
    { [c EXCEPT !.package.homepage = h, !.package.documentation = d]
      : c \in Configs({"foo"}, {<<AuthorPool[1]>>}, Repositories, {None}, {<<>>}),
        h \in HomepageValues, d \in DocumentationValues }

\* [package.metadata.aur] custom: raw lines for package().
CustomLines ==
    { <<"mkdir -p \"$pkgdir/var/lib/foo\"">>,
      <<"mkdir -p \"$pkgdir/var/lib/foo\"", "ln -s foo \"$pkgdir/usr/bin/f\"">> }

\* The manifests that give custom commands, with or without extra files.
CustomConfigs ==
    { [c EXCEPT !.package.metadata =
            Some([depends |-> <<>>, optdepends |-> <<>>,
                  aur |-> Some([depends |-> <<>>, optdepends |-> <<>>,
                                files |-> f, custom |-> lines])])]
      : c \in Configs({"foo"}, {<<AuthorPool[1]>>}, Repositories, {None}, {<<>>}),
        f \in FileSeqs(1), lines \in CustomLines }

\* The manifests given to `pkgbuild` called on its own.
RenderConfigs == MetadataConfigs \cup UrlConfigs \cup CustomConfigs

\* The manifests of whole runs.
RunConfigs ==
    Configs(Names, {<<AuthorPool[1]>>}, Repositories,
            Metadatas(LegacyDepends, {<<>>},
                      Aurs({<<>>}, {<<>>}, FileSeqs(MaxRunFiles))),
            Bins)

\* What the listed directory may hold.
DirListings ==
    { {"README.md"}, {"LICENSE", "README.md"}, {"LICENSE-APACHE", "LICENSE-MIT"} }

\* What a tarball read back may hold.
ArchiveBytes == { <<31, 139, 8>>, <<31, 139, 8, 0>> }

Sources == {"CratesIo", "Project"}
\* args.source.unwrap_or_default()
source_of(a) == IF IsSome(a.source) THEN a.source[1] ELSE "Project"

\* What rustup may print: the lines of its standard output.
MuslTarget == "x86_64-unknown-linux-musl"
GnuOnly == <<"x86_64-unknown-linux-gnu", "aarch64-unknown-linux-musl">>
TargetLists == { GnuOnly, <<"x86_64-unknown-linux-gnu", MuslTarget>> }

NoFile == [exists |-> FALSE, lines |-> <<>>]
NoBinary == [strip |-> "", from |-> "", to |-> ""]
NoArchive == [exists |-> FALSE, name |-> "", members |-> <<>>, bytes |-> <<>>]

(***************************************************************************)
(* `pkgbuild` called on its own, with the arguments `work` can pass it.    *)
(***************************************************************************)
InitRender ==
    /\ args \in [musl : {FALSE}, dryrun : {FALSE},
                 source : {Some(x) : x \in Sources}, no_bin : BOOLEAN]
    /\ config \in RenderConfigs
    /\ dir = {"LICENSE"}
    /\ license = IF must_copy_license(config.package.license) THEN Some("LICENSE") ELSE None
    /\ sha256 = Some(sha256sum(<<31, 139, 8>>))
    /\ pc = "pkgbuild"
    /\ result = Running
    /\ ran = <<>>
    /\ out = NoFile
    /\ copy = FALSE
    /\ archive = NoArchive
    /\ targets = GnuOnly
    /\ binary = NoBinary

\* pkgbuild(file, &config, &sha256, license.as_ref(), source, args.no_bin)
CallPkgbuild ==
    /\ pc = "pkgbuild"
    /\ LET r == pkgbuild(config, sha256[1], license, source_of(args), args.no_bin)
       IN  /\ out' = [exists |-> TRUE, lines |-> r.file]
           /\ result' = r.result
    /\ pc' = "done"
    /\ ran' = Append(ran, [stage |-> "pkgbuild", status |-> "ok"])
    /\ UNCHANGED <<args, config, dir, targets, binary, license, sha256, copy, archive>>

NextRender == CallPkgbuild

RenderSpec == InitRender /\ [][NextRender]_vars

(***************************************************************************)
(* src/main.rs: work.  One action per stage; a stage appends to `ran` what *)
(* it executed and how that ended.  An external process ends "exit0",      *)
(* "exit1" (any non-zero code) or "spawn_error" (Command::status returned  *)
(* Err); a file-system call ends "ok" or "io_error".                       *)
(***************************************************************************)
Init ==
    /\ args \in [musl : BOOLEAN, dryrun : BOOLEAN,
                 source : {None} \cup {Some(x) : x \in Sources}, no_bin : BOOLEAN]
    /\ config \in RunConfigs
    /\ dir \in DirListings
    /\ pc = "musl_check"
    /\ result = Running
    /\ ran = <<>>
    /\ license = None
    /\ sha256 = None
    /\ out = NoFile
    /\ copy = FALSE
    /\ archive = NoArchive
    /\ targets \in (IF args.musl THEN TargetLists ELSE {GnuOnly})
    /\ binary = NoBinary

ProcessOutcomes == {"exit0", "exit1", "spawn_error"}
FileOutcomes == {"ok", "io_error"}

Log(stage, status) == Append(ran, [stage |-> stage, status |-> status])
Log2(s1, o1, s2, o2) == Append(Log(s1, o1), [stage |-> s2, status |-> o2])

\* `?` on an Err: work returns it.
Return(r) == pc' = "done" /\ result' = r

\* The first stage of the match on (source, args.no_bin).
first_stage(a) ==
    IF source_of(a) = "CratesIo" THEN "download"
    ELSE IF a.no_bin THEN "source_tarball" ELSE "release_build"

\* musl_check with a test on the end of the line instead of the whole line.
musl_installed_by_suffix(lines) ==
    \E i \in 1..Len(lines) :
        /\ Len(lines[i]) >= 10
        /\ SubSeq(lines[i], Len(lines[i]) - 9, Len(lines[i])) = "linux-musl"

\* .lines().any(|tc| tc == "x86_64-unknown-linux-musl")
musl_installed(lines) == \E i \in 1..Len(lines) : lines[i] = MuslTarget

\* if args.musl { musl_check()? }.  The exit status of rustup is not read:
\* whatever it is, the lines of its standard output decide.
MuslCheck ==
    /\ pc = "musl_check"
    /\ IF ~args.musl
       THEN pc' = "create_dir" /\ UNCHANGED <<result, ran>>
       ELSE \E o \in ProcessOutcomes \cup {"not_utf8"} :
              /\ ran' = Log("musl_check", o)
              /\ IF o = "spawn_error" THEN Return(Err("IO"))
                 ELSE IF o = "not_utf8" THEN Return(Err("Utf8"))
                 ELSE IF musl_installed(targets)
                 THEN pc' = "create_dir" /\ UNCHANGED result
                 ELSE Return(Err("MissingMuslTarget"))
    /\ UNCHANGED <<args, config, dir, targets, binary, license, sha256, out, copy, archive>>

\* std::fs::create_dir_all(&output)?
CreateDir ==
    /\ pc = "create_dir"
    /\ \E o \in FileOutcomes :
         /\ ran' = Log("create_dir", o)
         /\ IF o = "ok" THEN pc' = "cargo_config" /\ UNCHANGED result
            ELSE Return(Err("IO"))
    /\ UNCHANGED <<args, config, dir, targets, binary, license, sha256, out, copy, archive>>

\* The test of the dry run, dropped.
builds_always(a) == TRUE

\* if args.dryrun.not()
builds(a) == ~a.dryrun

\* let config = cargo_config()?; the deprecation warning; if args.dryrun.not()
CargoConfig ==
    /\ pc = "cargo_config"
    /\ \E o \in FileOutcomes \cup {"toml_error"} :
         /\ ran' = Log("cargo_config", o)
         /\ IF o = "io_error" THEN Return(Err("IO"))
            ELSE IF o = "toml_error" THEN Return(Err("Toml"))
            ELSE IF ~builds(args) THEN Return(Ok)
            ELSE pc' = first_stage(args) /\ UNCHANGED result
    /\ UNCHANGED <<args, config, dir, targets, binary, license, sha256, out, copy, archive>>

\* release_build: the exit status of cargo is not read.
ReleaseBuild ==
    /\ pc = "release_build"
    /\ \E o \in ProcessOutcomes :
         /\ ran' = Log("release_build", o)
         /\ IF o = "spawn_error" THEN Return(Err("IO"))
            ELSE pc' = "license" /\ UNCHANGED result
    /\ UNCHANGED <<args, config, dir, targets, binary, license, sha256, out, copy, archive>>

\* source_tarball: cargo publish --dry-run, then the rename of the .crate file
\* to config.package.tarball(output).
SourceTarball ==
    /\ pc = "source_tarball"
    /\ \E o \in ProcessOutcomes, mv \in FileOutcomes, bytes \in ArchiveBytes :
         IF o = "spawn_error"
         THEN ran' = Log("publish", o) /\ Return(Err("IO")) /\ UNCHANGED archive
         ELSE IF o = "exit1"
         THEN ran' = Log("publish", o) /\ Return(Err("Compressing")) /\ UNCHANGED archive
         ELSE IF mv = "io_error"
         THEN ran' = Log2("publish", o, "rename", mv) /\ Return(Err("IO"))
              /\ UNCHANGED archive
         ELSE /\ ran' = Log2("publish", o, "rename", mv)
              /\ archive' = [exists |-> TRUE, name |-> Package_tarball(config.package),
                             members |-> <<"crate">>, bytes |-> bytes]
              /\ pc' = "license" /\ UNCHANGED result
    /\ UNCHANGED <<args, config, dir, targets, binary, license, sha256, out, copy>>

\* license_file after the directory was listed; MissingLicense if nothing matches.
FindLicense(listed, next) ==
    IF listed = "io_error"
    THEN ran' = Log("license_file", listed) /\ Return(Err("IO")) /\ UNCHANGED license
    ELSE IF license_candidates(dir) = {}
    THEN ran' = Log("license_file", "missing") /\ Return(Err("MissingLicense"))
         /\ UNCHANGED license
    ELSE \E f \in license_candidates(dir) :
           /\ ran' = Log("license_file", "ok")
           /\ license' = Some(f)
           /\ pc' = next /\ UNCHANGED result

\* alert_if_must_copy_license(..).then(|| license_file(None)).transpose()?
ProjectLicense ==
    /\ pc = "license"
    /\ LET next == IF args.no_bin THEN "sha256sum" ELSE "strip"
       IN  IF must_copy_license(config.package.license)
           THEN \E listed \in FileOutcomes : FindLicense(listed, next)
           ELSE pc' = next /\ UNCHANGED <<result, ran, license>>
    /\ UNCHANGED <<args, config, dir, targets, binary, sha256, out, copy, archive>>

\* let release_dir; let binary = cargo_target.join(release_dir).join(binary_name),
\* with cargo_target the default "target".
binary_path(musl, cfg) ==
    "target/" \o (IF musl THEN "x86_64-unknown-linux-musl/release" ELSE "release")
        \o "/" \o binary_name(cfg)

\* strip(&binary): the exit status is not read.
Strip ==
    /\ pc = "strip"
    /\ binary' = [binary EXCEPT !.strip = binary_path(args.musl, config)]
    /\ \E o \in ProcessOutcomes :
         /\ ran' = Log("strip", o)
         /\ IF o = "spawn_error" THEN Return(Err("IO"))
            ELSE pc' = "copy" /\ UNCHANGED result
    /\ UNCHANGED <<args, config, dir, targets, license, sha256, out, copy, archive>>

\* std::fs::copy(binary, binary_name)?
CopyBinary ==
    /\ pc = "copy"
    /\ binary' = [binary EXCEPT !.from = binary_path(args.musl, config),
                                !.to = binary_name(config)]
    /\ \E o \in FileOutcomes :
         /\ ran' = Log("copy", o)
         /\ IF o = "ok" THEN copy' = TRUE /\ pc' = "tar" /\ UNCHANGED result
            ELSE Return(Err("IO")) /\ UNCHANGED copy
    /\ UNCHANGED <<args, config, dir, targets, license, sha256, out, archive>>

RECURSIVE file_sources(_)
\* for (file, _) in files { command.arg(file); }
file_sources(files) ==
    IF files = <<>> THEN <<>> ELSE <<Head(files)[1]>> \o file_sources(Tail(files))

\* tar given the binary and the extra files, the license file left out.
tar_members_without_license(cfg, lic) ==
    <<binary_name(cfg)>> \o file_sources(aur_files(cfg.package))

\* The members given to tar: the binary, the license file, the extra files.
tar_members(cfg, lic) ==
    <<binary_name(cfg)>> \o (IF IsSome(lic) THEN <<lic[1]>> ELSE <<>>)
        \o file_sources(aur_files(cfg.package))

\* tar czf: a non-zero exit returns Error::Compressing.
Tar ==
    /\ pc = "tar"
    /\ \E o \in ProcessOutcomes, bytes \in ArchiveBytes :
         /\ ran' = Log("tar", o)
         /\ IF o = "spawn_error" THEN Return(Err("IO")) /\ UNCHANGED archive
            ELSE IF o = "exit1" THEN Return(Err("Compressing")) /\ UNCHANGED archive
            ELSE /\ archive' = [exists |-> TRUE, name |-> Package_tarball(config.package),
                                members |-> tar_members(config, license), bytes |-> bytes]
                 /\ pc' = "remove" /\ UNCHANGED result
    /\ UNCHANGED <<args, config, dir, targets, binary, license, sha256, out, copy>>

\* std::fs::remove_file(binary_name)?
RemoveCopy ==
    /\ pc = "remove"
    /\ \E o \in FileOutcomes :
         /\ ran' = Log("remove", o)
         /\ IF o = "ok" THEN copy' = FALSE /\ pc' = "sha256sum" /\ UNCHANGED result
            ELSE Return(Err("IO")) /\ UNCHANGED copy
    /\ UNCHANGED <<args, config, dir, targets, binary, license, sha256, out, archive>>

\* sha256sum(&config.package, &output)?
Sha256sum ==
    /\ pc = "sha256sum"
    /\ \E o \in FileOutcomes :
         /\ ran' = Log("sha256sum", IF archive.exists THEN o ELSE "io_error")
         /\ IF archive.exists /\ o = "ok"
            THEN sha256' = Some(sha256sum(archive.bytes)) /\ pc' = "pkgbuild"
                 /\ UNCHANGED result
            ELSE Return(Err("IO")) /\ UNCHANGED sha256
    /\ UNCHANGED <<args, config, dir, targets, binary, license, out, copy, archive>>

(***************************************************************************)
(* src/crates.rs: CrateFile and BuiltCrate, the crates.io source.          *)
(***************************************************************************)
\* CrateFile::download_new: tempfile::tempdir()?, then curl.
Download ==
    /\ pc = "download"
    /\ \E tmp \in FileOutcomes, o \in ProcessOutcomes :
         IF tmp = "io_error"
         THEN ran' = Log("tempdir", tmp) /\ Return(Err("IO"))
         ELSE /\ ran' = Log2("tempdir", tmp, "curl", o)
              /\ IF o = "spawn_error" THEN Return(Err("IO"))
                 ELSE IF o = "exit1" THEN Return(Err("DownloadingCrate"))
                 ELSE /\ pc' = IF args.no_bin THEN "crate_sha256sum" ELSE "crate_build"
                      /\ UNCHANGED result
    /\ UNCHANGED <<args, config, dir, targets, binary, license, sha256, out, copy, archive>>

\* CrateFile::get_sha256sum
CrateSha256sum ==
    /\ pc = "crate_sha256sum"
    /\ \E o \in FileOutcomes, bytes \in ArchiveBytes :
         /\ ran' = Log("crate_sha256sum", o)
         /\ IF o = "ok"
            THEN sha256' = Some(sha256sum(bytes)) /\ pc' = "crate_license"
                 /\ UNCHANGED result
            ELSE Return(Err("IO")) /\ UNCHANGED sha256
    /\ UNCHANGED <<args, config, dir, targets, binary, license, out, copy, archive>>

\* CrateFile::get_license: CrateFile::license_file extracts the crate first.
CrateGetLicense ==
    /\ pc = "crate_license"
    /\ IF must_copy_license(config.package.license)
       THEN \E o \in ProcessOutcomes, listed \in FileOutcomes :
              IF o = "spawn_error"
              THEN ran' = Log("extract", o) /\ Return(Err("IO")) /\ UNCHANGED license
              ELSE IF o = "exit1"
              THEN ran' = Log("extract", o) /\ Return(Err("ExtractingCrate"))
                   /\ UNCHANGED license
              ELSE IF listed = "io_error"
              THEN ran' = Log2("extract", o, "license_file", listed)
                   /\ Return(Err("IO")) /\ UNCHANGED license
              ELSE IF license_candidates(dir) = {}
              THEN ran' = Log2("extract", o, "license_file", "missing")
                   /\ Return(Err("MissingLicense")) /\ UNCHANGED license
              ELSE \E f \in license_candidates(dir) :
                     /\ ran' = Log2("extract", o, "license_file", "ok")
                     /\ license' = Some(f)
                     /\ pc' = "pkgbuild" /\ UNCHANGED result
       ELSE pc' = "pkgbuild" /\ UNCHANGED <<result, ran, license>>
    /\ UNCHANGED <<args, config, dir, targets, binary, sha256, out, copy, archive>>

\* CrateFile::build: tar -xvzf, then cargo build --release; either exiting
\* non-zero returns Error::ExtractingCrate.
CrateBuild ==
    /\ pc = "crate_build"
    /\ \E x \in ProcessOutcomes, o \in ProcessOutcomes :
         IF x = "spawn_error"
         THEN ran' = Log("extract", x) /\ Return(Err("IO"))
         ELSE IF x = "exit1"
         THEN ran' = Log("extract", x) /\ Return(Err("ExtractingCrate"))
         ELSE /\ ran' = Log2("extract", x, "crate_build", o)
              /\ IF o = "spawn_error" THEN Return(Err("IO"))
                 ELSE IF o = "exit1" THEN Return(Err("ExtractingCrate"))
                 ELSE pc' = "built_license" /\ UNCHANGED result
    /\ UNCHANGED <<args, config, dir, targets, binary, license, sha256, out, copy, archive>>

\* BuiltCrate::tarball, up to its call of super::tarball.
BuiltCrateLicense ==
    /\ pc = "built_license"
    /\ IF must_copy_license(config.package.license)
       THEN \E listed \in FileOutcomes : FindLicense(listed, "strip")
       ELSE pc' = "strip" /\ UNCHANGED <<result, ran, license>>
    /\ UNCHANGED <<args, config, dir, targets, binary, sha256, out, copy, archive>>

(***************************************************************************)
(* src/main.rs: the PKGBUILD is written.                                   *)
(***************************************************************************)
\* File::create(path)?, then pkgbuild(..)?: the BufWriter is flushed when it
\* is dropped, on Ok and on Err alike.
WritePkgbuild ==
    /\ pc = "pkgbuild"
    /\ \E o \in FileOutcomes :
         IF o = "io_error"
         THEN ran' = Log("create", o) /\ Return(Err("IO")) /\ UNCHANGED out
         ELSE LET r == pkgbuild(config, sha256[1], license, source_of(args), args.no_bin)
              IN  /\ ran' = Log2("create", o, "pkgbuild", "ok")
                  /\ out' = [exists |-> TRUE, lines |-> r.file]
                  /\ Return(r.result)
    /\ UNCHANGED <<args, config, dir, targets, binary, license, sha256, copy, archive>>

Next ==
    \/ MuslCheck
    \/ CreateDir
    \/ CargoConfig
    \/ ReleaseBuild
    \/ SourceTarball
    \/ ProjectLicense
    \/ Strip
    \/ CopyBinary
    \/ Tar
    \/ RemoveCopy
    \/ Sha256sum
    \/ Download
    \/ CrateSha256sum
    \/ CrateGetLicense
    \/ CrateBuild
    \/ BuiltCrateLicense
    \/ WritePkgbuild

Spec == Init /\ [][Next]_vars

(***************************************************************************)
(* src/metadata.rs, src/dist.rs, src/args.rs: the clap front end, where    *)
(* [package.metadata.aur] may give a template of the source URL            *)
(* (source_download) and CargoAurActions::exec drives the run.  A template *)
(* is the sequence of its parts, each a literal text or a variable.        *)
(***************************************************************************)
Lit(text) == [kind |-> "lit", text |-> text]
Var(name) == [kind |-> "var", text |-> name]

\* Package::fill_template: the variables the context knows.
fill_template(package) ==
    [name |-> package.name, version |-> package.version,
     repository |-> package.repository]

RECURSIVE render(_, _)
\* SrTemplate::render: Some(text), or None for a variable the context lacks.
render(ctx, src) ==
    IF src = <<>> THEN Some("")
    ELSE LET part == Head(src)
             rest == render(ctx, Tail(src))
         IN  IF part.kind = "var" /\ part.text \notin DOMAIN ctx THEN None
             ELSE IF rest = None THEN None
             ELSE Some((IF part.kind = "var" THEN ctx[part.text] ELSE part.text)
                           \o rest[1])

\* The source_download of [package.metadata.aur], if any.
source_download(package) ==
    IF IsSome(package.metadata) /\ IsSome(package.metadata[1].aur)
    THEN package.metadata[1].aur[1].source_download
    ELSE None

\* Package::git_host of metadata.rs with the forges looked at first.
metadata_git_host_forges_first(package) ==
    IF starts_with(package.repository, "https://github")
    THEN Some([host |-> "Github", src |-> <<>>])
    ELSE IF starts_with(package.repository, "https://gitlab")
    THEN Some([host |-> "Gitlab", src |-> <<>>])
    ELSE IF IsSome(source_download(package))
    THEN Some([host |-> "Custom", src |-> source_download(package)[1]])
    ELSE None

\* Package::git_host of metadata.rs
metadata_git_host(package) ==
    IF IsSome(source_download(package))
    THEN Some([host |-> "Custom", src |-> source_download(package)[1]])
    ELSE IF starts_with(package.repository, "https://github")
    THEN Some([host |-> "Github", src |-> <<>>])
    ELSE IF starts_with(package.repository, "https://gitlab")
    THEN Some([host |-> "Gitlab", src |-> <<>>])
    ELSE None

\* GitHost::source of metadata.rs: Some(url), or None for Err(TempateError).
metadata_source(host, ctx, package) ==
    IF host.host = "Github"
    THEN Some(package.repository \o "/releases/download/$pkgver/" \o package.name
                  \o "-$pkgver-x86_64.tar.gz")
    ELSE IF host.host = "Gitlab"
    THEN Some(package.repository \o "/-/archive/$pkgver/" \o package.name
                  \o "-$pkgver-x86_64.tar.gz")
    ELSE render(ctx, host.src)

\* #[default] Github
GitHost_default == [host |-> "Github", src |-> <<>>]

\* Package::template_name
template_name(package) ==
    IF IsSome(package.metadata) /\ IsSome(package.metadata[1].aur)
       /\ IsSome(package.metadata[1].aur[1].package_name)
    THEN package.metadata[1].aur[1].package_name[1]
    ELSE package.name

\* crate::pkgbuild::pkgbuild of the clap front end: the source is resolved, then
\* the lines are written in the order of the renderer's contract.
exec_pkgbuild(ctx, cfg, sum) ==
    LET package == cfg.package
        host == metadata_git_host(package)
        source == metadata_source(IF IsSome(host) THEN host[1] ELSE GitHost_default,
                                  ctx, package)
    IN  IF source = None THEN [file |-> <<>>, result |-> Err("TempateError")]
        ELSE [ file |->
                 maintainers(package.authors)
                 \o << attribution, "",
                       "pkgname=" \o template_name(package) \o "-bin",
                       "pkgver=" \o package.version,
                       "pkgrel=1",
                       "pkgdesc=\"" \o package.description \o "\"",
                       "url=\"" \o (IF package.homepage # "" THEN package.homepage
                                     ELSE package.repository) \o "\"",
                       "license=(\"" \o package.license \o "\")",
                       "arch=(\"x86_64\")",
                       "provides=(\"" \o package.name \o "\")",
                       "conflicts=(\"" \o package.name \o "\")" >>
                 \o pkgbuild_metadata(package)
                 \o << "source=(\"" \o source[1] \o "\")",
                       "sha256sums=(\"" \o sum \o "\")",
                       "",
                       "package() {",
                       "    install -Dm755 " \o binary_name(cfg) \o " -t \"$pkgdir/usr/bin\"",
                       "}" >>,
               result |-> Ok ]

\* The templates a manifest may give: one of known variables, one that names
\* a variable the context lacks.
Templates ==
    { << Lit("https://dl.example.org/"), Var("name"), Lit("-"), Var("version"),
         Lit(".tar.gz") >>,
      << Var("repository"), Lit("/get/"), Var("arch"), Lit(".tar.gz") >> }

ExecAurs ==
    { [package_name |-> None, source_download |-> t, depends |-> d, optdepends |-> <<>>]
      : t \in {None} \cup {Some(x) : x \in Templates},
        d \in {<<>>, <<"openssl">>} }

ExecConfigs ==
    { [package |-> [name |-> "foo", version |-> Version,
                    authors |-> <<AuthorPool[1]>>, description |-> Description,
                    homepage |-> "", repository |-> r, license |-> "Apache-2.0",
                    metadata |-> m],
       bin |-> b]
      : r \in Repositories,
        m \in {None} \cup { Some([depends |-> <<>>, optdepends |-> <<>>, aur |-> a])
                              : a \in {None} \cup {Some(x) : x \in ExecAurs} },
        b \in Bins }

\* A PKGBUILD left in the output directory by an earlier run.
StalePkgbuild == [exists |-> TRUE, lines |-> <<"# Maintainer: Zoe", "pkgname=foo-bin">>]

\* The file given to `generate`.
GenerateInput == "prebuilt.tar.gz"

InitExec ==
    /\ args \in { [action |-> "Build", musl |-> FALSE],
                   [action |-> "Build", musl |-> TRUE],
                   [action |-> "Generate", musl |-> FALSE] }
    /\ config \in ExecConfigs
    /\ dir = {"LICENSE"}
    /\ pc = "exec"
    /\ result = Running
    /\ ran = <<>>
    /\ license = None
    /\ sha256 = None
    /\ out \in {NoFile, StalePkgbuild}
    /\ copy = FALSE
    /\ archive = NoArchive
    /\ targets \in (IF args.musl THEN TargetLists ELSE {GnuOnly})
    /\ binary = NoBinary

\* The first of the steps of `steps` that returned an error, or their number.
last_step(steps) ==
    LET failed == {i \in 1..Len(steps) : steps[i].status \in {"spawn_error", "io_error"}}
    IN  IF failed = {} THEN Len(steps) ELSE CHOOSE i \in failed : \A j \in failed : i <= j

\* CargoAurActions::Build: build_package of dist.rs, that is musl_check,
\* release_build and tarball (strip, copy, tar, remove_file).  No exit status
\* is read: only a process that cannot be started ends the stage.
BuildPackage ==
    /\ pc = "exec" /\ args.action = "Build"
    /\ \E m \in ProcessOutcomes \cup {"not_utf8"}, b \in ProcessOutcomes,
          s \in ProcessOutcomes, c \in FileOutcomes, t \in ProcessOutcomes,
          r \in FileOutcomes, bytes \in ArchiveBytes :
         LET checked == IF args.musl THEN <<[stage |-> "musl_check", status |-> m]>>
                        ELSE <<>>
             refused == IF ~args.musl THEN None
                        ELSE IF m = "spawn_error" THEN Some("IO")
                        ELSE IF m = "not_utf8" THEN Some("Utf8")
                        ELSE IF musl_installed(targets) THEN None
                        ELSE Some("MissingMuslTarget")
             steps == << [stage |-> "release_build", status |-> b],
                         [stage |-> "strip", status |-> s],
                         [stage |-> "copy", status |-> c],
                         [stage |-> "tar", status |-> t],
                         [stage |-> "remove", status |-> r] >>
             n == last_step(steps)
             done == SubSeq(steps, 1, n)
         IN  IF IsSome(refused)
             THEN /\ ran' = ran \o checked
                  /\ Return(Err(refused[1]))
                  /\ UNCHANGED <<copy, archive, binary>>
             ELSE /\ ran' = ran \o checked \o done
                  /\ binary' = [strip |-> IF n >= 2 THEN binary_path(args.musl, config) ELSE "",
                                from |-> IF n >= 3 THEN binary_path(args.musl, config) ELSE "",
                                to |-> IF n >= 3 THEN binary_name(config) ELSE ""]
                  /\ copy' = ((n >= 3 /\ c = "ok") /\ ~(n = 5 /\ r = "ok"))
                  /\ archive' = IF n >= 4 /\ t = "exit0"
                                THEN [exists |-> TRUE, name |-> Package_tarball(config.package),
                                      members |-> <<binary_name(config)>>, bytes |-> bytes]
                                ELSE archive
                  /\ IF done[n].status \in {"spawn_error", "io_error"}
                     THEN Return(Err("IO"))
                     ELSE pc' = "create" /\ UNCHANGED result
    /\ UNCHANGED <<args, config, dir, targets, license, sha256, out>>

\* CargoAurActions::Generate: std::fs::copy(input, output/file_name)?
Generate ==
    /\ pc = "exec" /\ args.action = "Generate"
    /\ \E o \in FileOutcomes, bytes \in ArchiveBytes :
         /\ ran' = Log("generate", o)
         /\ IF o = "ok"
            THEN /\ archive' = [exists |-> TRUE, name |-> GenerateInput,
                                members |-> <<>>, bytes |-> bytes]
                 /\ pc' = "create" /\ UNCHANGED result
            ELSE Return(Err("IO")) /\ UNCHANGED archive
    /\ UNCHANGED <<args, config, dir, targets, binary, license, sha256, out, copy>>

\* exec: fill_template, then File::create(output/PKGBUILD)?
CreatePkgbuild ==
    /\ pc = "create"
    /\ \E o \in FileOutcomes :
         /\ ran' = Log("create", o)
         /\ IF o = "ok"
            THEN out' = [exists |-> TRUE, lines |-> <<>>] /\ pc' = "exec_sha256sum"
                 /\ UNCHANGED result
            ELSE Return(Err("IO")) /\ UNCHANGED out
    /\ UNCHANGED <<args, config, dir, targets, binary, license, sha256, copy, archive>>

\* exec: config.package.sha256sum(generated_file)?
ExecSha256sum ==
    /\ pc = "exec_sha256sum"
    /\ \E o \in FileOutcomes :
         /\ ran' = Log("sha256sum", IF archive.exists THEN o ELSE "io_error")
         /\ IF archive.exists /\ o = "ok"
            THEN sha256' = Some(sha256sum(archive.bytes)) /\ pc' = "exec_pkgbuild"
                 /\ UNCHANGED result
            ELSE Return(Err("IO")) /\ UNCHANGED sha256
    /\ UNCHANGED <<args, config, dir, targets, binary, license, out, copy, archive>>

\* exec: pkgbuild(ctx_template, file, config, &sha256, licenses)
ExecPkgbuild ==
    /\ pc = "exec_pkgbuild"
    /\ LET r == exec_pkgbuild(fill_template(config.package), config, sha256[1])
       IN  /\ out' = [exists |-> TRUE, lines |-> r.file]
           /\ Return(r.result)
    /\ ran' = Log("pkgbuild", "ok")
    /\ UNCHANGED <<args, config, dir, targets, binary, license, sha256, copy, archive>>

NextExec ==
    \/ BuildPackage
    \/ Generate
    \/ CreatePkgbuild
    \/ ExecSha256sum
    \/ ExecPkgbuild

ExecSpec == InitExec /\ [][NextExec]_vars

(***************************************************************************)
(* Properties.  They read the PKGBUILD back line by line and rebuild the   *)
(* expected text themselves, not through the renderer's operators.         *)
(***************************************************************************)
\* The lines of the PKGBUILD that begin with `prefix`, in order.
lines_with(prefix) == SelectSeq(out.lines, LAMBDA l : starts_with(l, prefix))

\* `sub` occurs in `l`.
contains(l, sub) ==
    \E i \in 1..(Len(l) - Len(sub) + 1) : SubSeq(l, i, i + Len(sub) - 1) = sub

Package == config.package
IsGithub == Len(Package.repository) >= 14 /\ SubSeq(Package.repository, 1, 14) = "https://github"
IsGitlab == Len(Package.repository) >= 14 /\ SubSeq(Package.repository, 1, 14) = "https://gitlab"
FromCratesIo == args.source = <<"CratesIo">> /\ args.no_bin

\* The file name of the release asset, after $pkgver: with the architecture
\* in binary mode, without it in source mode.
AssetSuffix == IF args.no_bin THEN "-$pkgver.tar.gz" ELSE "-$pkgver-x86_64.tar.gz"
GithubLine ==
    "source=(\"" \o Package.repository \o "/releases/download/v$pkgver/"
        \o Package.name \o AssetSuffix \o "\")"
GitlabLine ==
    "source=(\"" \o Package.repository \o "/-/archive/v$pkgver/"
        \o Package.name \o AssetSuffix \o "\")"
CratesIoLine ==
    "source=(\"$pkgname-$pkgver.tar.gz::https://static.crates.io/crates/$pkgname/$pkgname-$pkgver.crate\")"

\* C1: once pkgbuild has written, the file has exactly one `pkgname=` line, and
\* it is `pkgname={name}-bin` when a prebuilt binary is packaged (no_bin false)
\* and `pkgname={name}` when packaging from source (no_bin true).
C1_Pkgname ==
    out.exists =>
        lines_with("pkgname=") =
            << "pkgname=" \o Package.name \o (IF args.no_bin THEN "" ELSE "-bin") >>

C1_Witness ==
    /\ out.exists /\ args.no_bin /\ Package.name = "cargo-aur"
    /\ lines_with("pkgname=") = <<"pkgname=cargo-aur">>

C3_GitlabEveryMode ==
    (out.exists /\ IsGitlab) =>
        /\ lines_with("source=(") = <<GitlabLine>>
        /\ lines_with("source=(") # <<GithubLine>>

\* C3, amended: for a repository that starts with `https://gitlab` the `source=`
\* line never holds the GitHub template, and it holds the GitLab archive
\* template (architecture omitted in source mode) except when packaging from
\* source with the crates.io source, where it holds the crates.io download.
C3_GitlabSource ==
    (out.exists /\ IsGitlab) =>
        /\ lines_with("source=(") = << IF FromCratesIo THEN CratesIoLine ELSE GitlabLine >>
        /\ lines_with("source=(") # <<GithubLine>>

C3_Witness ==
    /\ out.exists /\ IsGitlab /\ ~args.no_bin /\ Package.name = "foo"
    /\ lines_with("source=(") =
         <<"source=(\"https://gitlab.com/x/foo/-/archive/v$pkgver/foo-$pkgver-x86_64.tar.gz\")">>

RECURSIVE quoted_join(_)
\* "a" "b" "c": the items of a non-empty list, each quoted, one space between.
quoted_join(items) ==
    IF Len(items) = 1 THEN "\"" \o items[1] \o "\""
    ELSE "\"" \o Head(items) \o "\" " \o quoted_join(Tail(items))

\* The lines a list gives: none if it is empty, else key=("a" "b").
list_lines(key, items) ==
    IF items = <<>> THEN <<>> ELSE << key \o "=(" \o quoted_join(items) \o ")" >>

\* C4: with a [package.metadata] block, the depends and optdepends lines come
\* from the nested `aur` block alone when it is present (a nested list that is
\* empty gives no line, whatever the legacy list holds), and from the legacy
\* lists only when the nested block is absent.
C4_NestedPrecedence ==
    (out.exists /\ IsSome(Package.metadata)) =>
        LET m == Package.metadata[1]
            from == IF m.aur # <<>> THEN m.aur[1] ELSE m
        IN  /\ lines_with("depends=(") = list_lines("depends", from.depends)
            /\ lines_with("optdepends=(") = list_lines("optdepends", from.optdepends)

C4_Witness ==
    /\ out.exists /\ IsSome(Package.metadata)
    /\ Package.metadata[1].aur # <<>>
    /\ Package.metadata[1].aur[1].depends = <<>>
    /\ Package.metadata[1].depends = <<"glibc">>
    /\ Package.metadata[1].optdepends = <<"man-db">>
    /\ Package.metadata[1].aur[1].optdepends = <<"git">>
    /\ lines_with("depends=(") = <<>>
    /\ lines_with("optdepends=(") = <<"optdepends=(\"git\")">>

\* The effective lists, after the nested and the legacy block are reconciled.
Effective(field) ==
    IF Package.metadata = <<>> THEN <<>>
    ELSE IF Package.metadata[1].aur # <<>> THEN Package.metadata[1].aur[1][field]
    ELSE Package.metadata[1][field]

RECURSIVE offset(_, _, _)
\* Where the opening quote of item i stands in a line key=("a" "b").
offset(key, items, i) ==
    IF i = 1 THEN Len(key) + 3
    ELSE offset(key, items, i - 1) + Len(items[i - 1]) + 3

\* `line` is key=( then every item once, quoted, in order, one space between
\* neighbours, then ) right after the last closing quote.
well_formed(line, key, items) ==
    LET n == Len(items)
        end(i) == offset(key, items, i) + Len(items[i]) + 1
    IN  /\ SubSeq(line, 1, Len(key) + 2) = key \o "=("
        /\ \A i \in 1..n :
             SubSeq(line, offset(key, items, i), end(i)) = "\"" \o items[i] \o "\""
        /\ \A i \in 1..(n - 1) : SubSeq(line, end(i) + 1, end(i) + 1) = " "
        /\ Len(line) = end(n) + 1
        /\ SubSeq(line, Len(line), Len(line)) = ")"

present_iff_non_empty(key) ==
    LET items == Effective(key)
        found == lines_with(key \o "=(")
    IN  IF items = <<>> THEN found = <<>>
        ELSE Len(found) = 1 /\ well_formed(found[1], key, items)

Files == aur_files(Package)
Relative == {i \in 1..Len(Files) : SubSeq(Files[i][2], 1, 1) # "/"}
FirstRelative == CHOOSE i \in Relative : \A j \in Relative : i <= j

\* C6: if an extra-file pair has a target that is not absolute, pkgbuild returns
\* TargetNotAbsolute for the first such target, and the extra-file install lines
\* written are those of the pairs before it: none for that pair or a later one.
C6_TargetNotAbsolute ==
    (out.exists /\ Relative # {}) =>
        /\ result = [tag |-> "TargetNotAbsolute", path |-> Files[FirstRelative][2]]
        /\ lines_with("    install -Dm644 \"") =
             [ i \in 1..(FirstRelative - 1) |->
                 "    install -Dm644 \"" \o Files[i][1] \o "\" \"$pkgdir" \o Files[i][2] \o "\"" ]

C6_Witness ==
    /\ out.exists /\ Len(Files) = 2 /\ Relative = {2}
    /\ result.tag = "TargetNotAbsolute" /\ result.path = "man/foo.1"
    /\ lines_with("    install -Dm644 \"") =
         <<"    install -Dm644 \"foo.bash\" \"$pkgdir/usr/share/foo.bash\"">>

\* An install line of the LICENSE file: its source is not quoted (an extra
\* file's is) and it goes to the package's directory of licenses.
is_license_install(l) ==
    /\ starts_with(l, "    install -Dm644 ")
    /\ ~starts_with(l, "    install -Dm644 \"")
    /\ contains(l, " \"$pkgdir/usr/share/licenses/$pkgname/")
LicenseInstalls == SelectSeq(out.lines, is_license_install)

Succeeded == pc = "done" /\ result.tag = "Ok"

\* C7: after a successful run that wrote the PKGBUILD, package() holds a license
\* install line if and only if the manifest's license is not in the allow-list
\* of common licenses; for an allow-listed one there is none, whether or not
\* the directory holds a LICENSE file.
C7_LicenseInstallIffNotCommon ==
    (Succeeded /\ out.exists) =>
        (LicenseInstalls # <<>> <=> Package.license \notin LICENSES)

C7_Witness ==
    /\ Succeeded /\ out.exists
    /\ Package.license = "Apache-2.0" /\ "LICENSE" \in dir
    /\ LicenseInstalls = <<>>

\* The directory was listed by license_file.
Searched == \E i \in 1..Len(ran) : ran[i].stage = "license_file" /\ ran[i].status # "io_error"

\* C8: if the license is not in the allow-list and the directory that was
\* searched holds no file whose name starts with LICENSE, the run has failed
\* with MissingLicense and no PKGBUILD was written.
C8_MissingLicense ==
    ( /\ Searched
      /\ Package.license \notin LICENSES
      /\ \A f \in dir : ~(Len(f) >= 7 /\ SubSeq(f, 1, 7) = "LICENSE") ) =>
        pc = "done" /\ result.tag = "MissingLicense" /\ ~out.exists

C8_Witness ==
    /\ pc = "done" /\ result.tag = "MissingLicense" /\ ~out.exists
    /\ Package.license = "MIT" /\ dir = {"README.md"} /\ Searched

\* C9, as claimed: for the target query, the release build, strip and the
\* archive command, a process that exits non-zero is the last stage executed,
\* and the run has ended in an error.
C9_NonZeroExitIsFatal ==
    \A i \in 1..Len(ran) :
        (ran[i].stage \in {"musl_check", "release_build", "strip", "tar"}
         /\ ran[i].status = "exit1") =>
            i = Len(ran) /\ pc = "done" /\ result.tag \notin {"running", "Ok"}

\* `tarball` was entered and has returned.
TarballReturned ==
    /\ \E i \in 1..Len(ran) : ran[i].stage = "strip"
    /\ pc \notin {"copy", "tar", "remove"}

\* C10, as claimed: once the archive step has returned, by success or by any
\* failure, no transient copy of the binary is left in the working directory.
C10_CopyRemoved == TarballReturned => ~copy

\* rustup ran and what it printed was read.
TargetsListed ==
    /\ ran # <<>> /\ ran[1].stage = "musl_check"
    /\ ran[1].status \in {"exit0", "exit1"}

\* No line printed by rustup is the musl target.
MuslMissing == \A i \in 1..Len(targets) : targets[i] # "x86_64-unknown-linux-musl"

\* C11: when --musl is given the target check is the first stage executed, and
\* if the musl target is not among the installed targets that were listed, the
\* run has ended with MissingMuslTarget after that one stage: no directory was
\* created, no build, strip or archive process started, and there is no copy
\* of the binary, no tarball and no PKGBUILD.
C11_MuslCheckFirst ==
    (args.musl /\ pc # "musl_check") =>
        /\ ran # <<>> /\ ran[1].stage = "musl_check"
        /\ (TargetsListed /\ MuslMissing) =>
               /\ pc = "done" /\ result.tag = "MissingMuslTarget"
               /\ Len(ran) = 1
               /\ binary.strip = "" /\ ~copy /\ ~archive.exists /\ ~out.exists

C11_Witness ==
    /\ args.musl /\ TargetsListed /\ MuslMissing
    /\ targets[2] = "aarch64-unknown-linux-musl"
    /\ pc = "done" /\ result.tag = "MissingMuslTarget" /\ Len(ran) = 1

RECURSIVE maintainer_lines(_)
\* One `# Maintainer: {author}` line per author, in manifest order.
maintainer_lines(authors) ==
    IF authors = <<>> THEN <<>>
    ELSE <<"# Maintainer: " \o authors[1]>>
             \o maintainer_lines(SubSeq(authors, 2, Len(authors)))

\* The `url=` line written, whatever its value.
UrlLine == IF lines_with("url=\"") = <<>> THEN "url=\"\"" ELSE lines_with("url=\"")[1]

\* A function block of a from-source PKGBUILD, with the blank line after it.
Block(name, commands) ==
    <<name \o "() {", "    cd $pkgname-$pkgver">> \o commands \o <<"}", "">>

\* The lines expected before `package() {`.  The attribution comment is read
\* as the `#` line and the line naming cargo aur; a function block is read
\* with the blank line that closes it.
ExpectedHead ==
    maintainer_lines(Package.authors)
    \o << "#", attribution, "",
          "pkgname=" \o Package.name \o (IF args.no_bin THEN "" ELSE "-bin"),
          "pkgver=" \o Package.version,
          "pkgrel=1",
          "pkgdesc=\"" \o Package.description \o "\"",
          UrlLine,
          "license=(\"" \o Package.license \o "\")",
          "arch=(\"x86_64\")" >>
    \o (IF args.no_bin THEN <<>>
        ELSE << "provides=(\"" \o Package.name \o "\")",
                "conflicts=(\"" \o Package.name \o "\")" >>)
    \o list_lines("depends", Effective("depends"))
    \o list_lines("optdepends", Effective("optdepends"))
    \o << lines_with("source=(")[1], "sha256sums=(\"" \o sha256[1] \o "\")", "" >>
    \o (IF args.no_bin
        THEN Block("prepare", << "    export RUSTUP_TOOLCHAIN=stable",
                                 "    cargo fetch --locked --target \"$(rustc -vV | sed -n 's/host: //p')\"" >>)
             \o Block("build", << "    export RUSTUP_TOOLCHAIN=stable",
                                  "    export CARGO_TARGET_DIR=target",
                                  "    cargo build --frozen --release --all-features" >>)
             \o Block("check", << "    export RUSTUP_TOOLCHAIN=stable",
                                  "    cargo test --frozen --all-features" >>)
        ELSE <<>>)

\* C12, as claimed: when rendering succeeds, the lines before `package() {` are
\* exactly the maintainer lines (none without authors), the attribution
\* comment, a blank line, pkgname, pkgver, pkgrel, pkgdesc, url, license, arch,
\* provides and conflicts (binary mode), the non-empty depends and optdepends
\* lines, source, sha256sums, a blank line and the prepare, build and check
\* blocks (source mode), with no other line and no empty line in between; the
\* package() block follows and closes the file.
C12_ExactOrder ==
    (out.exists /\ result.tag = "Ok") =>
        /\ lines_with("source=(") # <<>>
        /\ Len(out.lines) > Len(ExpectedHead) + 1
        /\ SubSeq(out.lines, 1, Len(ExpectedHead)) = ExpectedHead
        /\ out.lines[Len(ExpectedHead) + 1] = "package() {"
        /\ out.lines[Len(out.lines)] = "}"

\* The manifest gives a template of the source URL.
HasCustom ==
    /\ Package.metadata # <<>>
    /\ Package.metadata[1].aur # <<>>
    /\ Package.metadata[1].aur[1].source_download # <<>>
CustomTemplate == Package.metadata[1].aur[1].source_download[1]

\* The variables a template may name.
Known == {"name", "version", "repository"}
Renders(template) ==
    \A i \in 1..Len(template) : template[i].kind = "var" => template[i].text \in Known

RECURSIVE Substituted(_)
\* The template with each variable replaced by the manifest's value.
Substituted(template) ==
    IF template = <<>> THEN ""
    ELSE LET part == template[1]
             text == IF part.kind = "lit" THEN part.text
                     ELSE IF part.text = "name" THEN Package.name
                     ELSE IF part.text = "version" THEN Package.version
                     ELSE Package.repository
         IN  text \o Substituted(SubSeq(template, 2, Len(template)))

\* What the `source=` line holds.
SourceIs(value) == lines_with("source=(") = << "source=(\"" \o value \o "\")" >>
HostGithub ==
    SourceIs(Package.repository \o "/releases/download/$pkgver/" \o Package.name
                 \o "-$pkgver-x86_64.tar.gz")
HostGitlab ==
    SourceIs(Package.repository \o "/-/archive/$pkgver/" \o Package.name
                 \o "-$pkgver-x86_64.tar.gz")
FromTemplate == HasCustom /\ SourceIs(Substituted(CustomTemplate))

\* The renderer of the clap front end was called and has returned.
Rendered == ran # <<>> /\ ran[Len(ran)].stage = "pkgbuild" /\ pc = "done"

FirstNonEmpty ==
    IF Package.homepage # <<>> /\ Package.homepage[1] # "" THEN Package.homepage[1]
    ELSE IF Package.documentation # <<>> /\ Package.documentation[1] # ""
    THEN Package.documentation[1]
    ELSE Package.repository

\* C14, as claimed: the `url=` line holds the first non-empty of homepage,
\* documentation and repository: a homepage that is absent or empty never wins
\* over a documentation or repository value that is not empty.
C14_UrlFirstNonEmpty ==
    out.exists => lines_with("url=") = << "url=\"" \o FirstNonEmpty \o "\"" >>

\* The custom command lines of the manifest.
Custom ==
    IF Package.metadata # <<>> /\ Package.metadata[1].aur # <<>>
    THEN Package.metadata[1].aur[1].custom
    ELSE <<>>

\* Line i of the file is the custom command `command`, as it is or indented.
IsCommand(i, command) ==
    out.lines[i] = command \/ out.lines[i] = "    " \o command

\* C15, as claimed: when rendering succeeds for a manifest with custom command
\* lines, these lines stand in declaration order at the end of package(),
\* after the install lines and right before the closing brace.
C15_CustomCommandsRendered ==
    (out.exists /\ result.tag = "Ok" /\ Custom # <<>>) =>
        LET n == Len(Custom)
            last == Len(out.lines)
        IN  /\ last > n
            /\ out.lines[last] = "}"
            /\ \A i \in 1..n : IsCommand(last - n - 1 + i, Custom[i])

\* The name the packaging steps are to use.
FirstBinary == IF config.bin = <<>> THEN Package.name ELSE config.bin[1].name
\* Where cargo leaves the binary of that name.
BuiltBinary ==
    (IF args.musl THEN "target/x86_64-unknown-linux-musl/release/" ELSE "target/release/")
        \o FirstBinary
\* The names of the [[bin]] tables after the first.
LaterBinaries == {config.bin[i].name : i \in 2..Len(config.bin)}

\* C16: every packaging step uses the name of the first [[bin]] table, or the
\* package name when there is none: strip and the copy read the built binary
\* of that name, the transient copy and the first archive member have that
\* name, and package() has exactly one `install -Dm755` line, for that name.
\* No later [[bin]] name is an archive member or occurs in the PKGBUILD.
C16_FirstBinaryName ==
    /\ binary.strip # "" => binary.strip = BuiltBinary
    /\ binary.to # "" => (binary.from = BuiltBinary /\ binary.to = FirstBinary)
    /\ (archive.exists /\ ~args.no_bin) =>
           /\ archive.members[1] = FirstBinary
           /\ \A i \in 1..Len(archive.members) : archive.members[i] \notin LaterBinaries
    /\ out.exists =>
           /\ lines_with("    install -Dm755 ") =
                << "    install -Dm755 " \o (IF args.no_bin THEN "target/release/" ELSE "")
                       \o FirstBinary \o " -t \"$pkgdir/usr/bin\"" >>
           /\ \A i \in 1..Len(out.lines) : \A b \in LaterBinaries : ~contains(out.lines[i], b)

C16_Witness ==
    /\ Succeeded /\ out.exists /\ ~args.no_bin /\ args.musl
    /\ Len(config.bin) = 2
    /\ binary.strip = "target/x86_64-unknown-linux-musl/release/foo-cli"
    /\ binary.to = "foo-cli"
    /\ archive.members[1] = "foo-cli"
    /\ lines_with("    install -Dm755 ") =
         <<"    install -Dm755 foo-cli -t \"$pkgdir/usr/bin\"">>

\* The characters of lowercase hexadecimal.
LowerHex == {"0", "1", "2", "3", "4", "5", "6", "7", "8", "9", "a", "b", "c", "d", "e", "f"}

\* The checksum stage could not read its file.
ChecksumUnreadable ==
    \E i \in 1..Len(ran) :
        ran[i].stage \in {"sha256sum", "crate_sha256sum"} /\ ran[i].status = "io_error"

\* C17: a checksum that was computed is 64 characters of 0-9 and a-f, and
\* computing it again over the tarball, which no later stage modifies, gives
\* the same string (the one the PKGBUILD then carries); if the file cannot be
\* read the stage returns the I/O error and there is no checksum.
C17_Checksum ==
    /\ sha256 # <<>> =>
           /\ Len(sha256[1]) = 64
           /\ \A i \in 1..64 : SubSeq(sha256[1], i, i) \in LowerHex
           /\ archive.exists => sha256sum(archive.bytes) = sha256[1]
           /\ (out.exists /\ result.tag = "Ok") =>
                  lines_with("sha256sums=") = << "sha256sums=(\"" \o sha256[1] \o "\")" >>
    /\ ChecksumUnreadable =>
           (sha256 = <<>> /\ pc = "done" /\ result.tag = "IO" /\ ~out.exists)

C17_Witness ==
    /\ archive.exists /\ archive.bytes = <<31, 139, 8>>
    /\ sha256 = <<"6683a0bddaf714314e6b88a5c2dffc193653708daac7e4011e3b587592afcce9">>
    /\ Succeeded
    /\ lines_with("sha256sums=") =
         <<"sha256sums=(\"6683a0bddaf714314e6b88a5c2dffc193653708daac7e4011e3b587592afcce9\")">>

\* The manifest was read and parsed.
ManifestParsed ==
    \E i \in 1..Len(ran) : ran[i].stage = "cargo_config" /\ ran[i].status = "ok"

PkgbuildUntouched == out \in {NoFile, StalePkgbuild}

\* C19, as claimed: the PKGBUILD is created or truncated only after the archive
\* stage and the checksum stage have succeeded: as long as no checksum has
\* been computed, and so whenever an earlier stage has returned an error, a
\* PKGBUILD already in the output directory is unchanged and none was created.
C19_PkgbuildAfterChecksum == sha256 = <<>> => PkgbuildUntouched

\* What follows the last "/" of a text.
LastSegment(text) ==
    LET slashes == {i \in 1..Len(text) : SubSeq(text, i, i) = "/"}
        last == IF slashes = {} THEN 0
                ELSE CHOOSE i \in slashes : \A j \in slashes : j <= i
    IN  SubSeq(text, last + 1, Len(text))

RECURSIVE WithVersion(_)
\* A text with every $pkgver replaced by the version of the package.
WithVersion(text) ==
    IF Len(text) < 7 THEN text
    ELSE IF SubSeq(text, 1, 7) = "$pkgver"
    THEN Package.version \o WithVersion(SubSeq(text, 8, Len(text)))
    ELSE SubSeq(text, 1, 1) \o WithVersion(SubSeq(text, 2, Len(text)))

\* The URL between source=(" and ") of the source line.
SourceUrl ==
    LET line == lines_with("source=(")[1]
    IN  SubSeq(line, 10, Len(line) - 2)

\* C20, as claimed: after a run that wrote an archive into the output directory
\* and the PKGBUILD, the archive's file name is the last path segment of the
\* `source=` URL with $pkgver replaced by the version, in source mode for a
\* project in the current directory as in binary mode.
C20_ArchiveNameIsSourceName ==
    (Succeeded /\ out.exists /\ archive.exists) =>
        archive.name = WithVersion(LastSegment(SourceUrl))

\* The PKGBUILD holds the line that opens the package() function.
PackageOpened == \E i \in 1..Len(out.lines) : out.lines[i] = "package() {"

\* The last line of the PKGBUILD closes a function.
EndsClosed == out.lines # <<>> /\ out.lines[Len(out.lines)] = "}"

\* C21, as claimed: once the renderer has returned, with Ok or with an error,
\* a PKGBUILD on disk that holds the `package() {` opening line also ends with
\* the closing `}` line: no unterminated package() block is left behind.
C21_PackageBlockClosed ==
    (out.exists /\ result # Running /\ PackageOpened) => EndsClosed

\* The install lines of the PKGBUILD, in order.
InstallLines == lines_with("    install -D")

\* The file an install line reads: what follows `install -Dm755 ` or
\* `install -Dm644 `, up to the closing quote if it is quoted and up to the
\* next space if it is not.
installed_file(line) ==
    LET rest == SubSeq(line, 20, Len(line))
        quoted == SubSeq(rest, 1, 1) = "\""
        text == IF quoted THEN SubSeq(rest, 2, Len(rest)) ELSE rest
        stops == {i \in 1..Len(text) :
                    SubSeq(text, i, i) = (IF quoted THEN "\"" ELSE " ")}
        stop == IF stops = {} THEN Len(text) + 1
                ELSE CHOOSE i \in stops : \A j \in stops : i <= j
    IN  SubSeq(text, 1, stop - 1)

\* The file was a member given to the command that wrote the archive.
Archived(f) == \E j \in 1..Len(archive.members) : archive.members[j] = f

\* C22: in binary mode, after a successful run that wrote the PKGBUILD, every
\* file an install line of package() reads (the binary, the license file if
\* one is installed, the source of each extra-file pair) was a member given
\* to the archive command.
C22_InstalledFilesArchived ==
    (Succeeded /\ ~args.no_bin /\ out.exists) =>
        /\ archive.exists
        /\ \A i \in 1..Len(InstallLines) : Archived(installed_file(InstallLines[i]))

C22_Witness ==
    /\ Succeeded /\ ~args.no_bin /\ out.exists
    /\ InstallLines =
         << "    install -Dm755 foo-cli -t \"$pkgdir/usr/bin\"",
            "    install -Dm644 LICENSE-MIT \"$pkgdir/usr/share/licenses/$pkgname/LICENSE-MIT\"",
            "    install -Dm644 \"foo.bash\" \"$pkgdir/usr/share/foo.bash\"" >>
    /\ archive.members = <<"foo-cli", "LICENSE-MIT", "foo.bash">>

====
